---- MODULE Spec2Model ----
(***************************************************************************)
(* A model of src/main.py, the NLP-to-SQL service: the startup             *)
(* configuration checks, the POST /generate-query handler                   *)
(* (get_schema, generate_sql, execute_sql, flatten_record, the summary      *)
(* step and the response assembly), and the two pure helpers                *)
(* is_safe_select and flatten_record checked on their own inputs.           *)
(*                                                                         *)
(* Text is modelled at two grains.  The user's question is a sequence of    *)
(* characters, because the forbidden-keyword scan is a substring test.      *)
(* SQL text is a sequence of lexical tokens; two neighbouring tokens are    *)
(* separated by one blank unless one of them is the newline token NL.       *)
(***************************************************************************)
EXTENDS Integers, Sequences, FiniteSets, TLC

VARIABLES
    env,            \* the process environment read at import (lines 30-35)
    pc,             \* position of the process / of the request handler
    user_query,     \* request.user_query
    response,       \* generate_sql: the text returned by the LLM backend
    sql_query,      \* generate_and_execute: the value returned by generate_sql
    query,          \* execute_sql: the cleaned query
    results,        \* generate_and_execute: rows returned by execute_sql
    flat_results,   \* generate_and_execute: the flattened rows
    summary,        \* generate_and_execute: the summary
    status,         \* HTTP status of the request (0 while in progress)
    reply,          \* the response body of a successful request
    llm_calls,      \* number of LLM backend calls made for this request
    db_log,         \* database operations performed for this request
    outcome,        \* how the request ended ("" while in progress)
    validated,      \* the calls of is_safe_select made for this request
    summary_error,  \* whether the summary step of this request failed
    vq,             \* validator check: the text handed to the cleaning step
    sql,            \* validator check: the argument of is_safe_select
    safe,           \* validator check: the value is_safe_select returned
    vpc,            \* validator check: position
    record,         \* flattener check: the argument of flatten_record
    items,          \* flattener check: the value flatten_record returned
    fpc             \* flattener check: position

vars == <<env, pc, user_query, response, sql_query, query, results,
          flat_results, summary, status, reply, llm_calls, db_log, outcome,
          validated, summary_error,
          vq, sql, safe, vpc, record, items, fpc>>

handlerVars == <<env, pc, user_query, response, sql_query, query, results,
                 flat_results, summary, status, reply, llm_calls, db_log,
                 outcome, validated, summary_error>>
validatorVars == <<vq, sql, safe, vpc>>
flattenVars == <<record, items, fpc>>

-----------------------------------------------------------------------------
(* Bounds of the model *)

MaxSqlLen == 3        \* tokens in a text handed to the validator check
MaxUserChunks == 2    \* chunks a user question is made of
MaxRows == 1          \* rows a query returns
MaxEntries == 3       \* key/value entries in a record handed to flatten_record

-----------------------------------------------------------------------------
(* Sequences *)

RECURSIVE SeqsUpTo(_, _)
SeqsUpTo(S, n) ==
    IF n = 0 THEN {<<>>}
    ELSE LET shorter == SeqsUpTo(S, n - 1)
         IN shorter \cup {Append(s, x) : s \in shorter, x \in S}

RECURSIVE Concat(_)
Concat(ss) == IF ss = <<>> THEN <<>> ELSE Head(ss) \o Concat(Tail(ss))

-----------------------------------------------------------------------------
(* SQL text as tokens *)

NL == "NL"
FenceSql == "FENCE_SQL"    \* three backticks followed by sql
Fence == "FENCE"           \* three backticks
SqlTokens == {FenceSql, Fence, NL, "SELECT", "DROP", "TABLE", "EXEC", ";", "--", "/*"}

\* str.strip(): leading and trailing whitespace removed
RECURSIVE LStrip(_)
LStrip(s) == IF s # <<>> /\ Head(s) = NL THEN LStrip(Tail(s)) ELSE s

RECURSIVE RStrip(_)
RStrip(s) ==
    IF s # <<>> /\ s[Len(s)] = NL THEN RStrip(SubSeq(s, 1, Len(s) - 1)) ELSE s

strip(s) == RStrip(LStrip(s))

\* first index >= i of s that is not whitespace (Len(s) + 1 if there is none)
RECURSIVE SkipWs(_, _)
SkipWs(s, i) == IF i <= Len(s) /\ s[i] = NL THEN SkipWs(s, i + 1) ELSE i

AtLineStart(s, i) == i = 1 \/ s[i - 1] = NL
AtLineEnd(s, i) == i = Len(s) \/ s[i + 1] = NL

\* re.sub of line 209, multi-line mode, scanning from i: an opening fence with
\* its language tag at the start of a line goes with the whitespace after it,
\* a bare fence at the end of a line goes with the whitespace before it
RECURSIVE SubFences(_, _)
SubFences(s, i) ==
    IF i > Len(s) THEN <<>>
    ELSE IF s[i] = FenceSql /\ AtLineStart(s, i)
         THEN SubFences(s, SkipWs(s, i + 1))
    ELSE LET j == SkipWs(s, i)
         IN IF j <= Len(s) /\ s[j] = Fence /\ AtLineEnd(s, j)
            THEN SubFences(s, j + 1)
            ELSE <<s[i]>> \o SubFences(s, i + 1)

\* execute_sql line 209: the cleaned query
clean_query(q) == SubFences(strip(q), 1)

\* last index of the single-line comment that starts at i: through the newline
RECURSIVE CommentEnd(_, _)
CommentEnd(s, i) ==
    IF i >= Len(s) THEN Len(s)
    ELSE IF s[i] = NL THEN i ELSE CommentEnd(s, i + 1)

AllWhitespace(s) == \A i \in 1..Len(s) : s[i] = NL

\* sqlparse.parse: the statement splitter.  A statement ends with its ";";
\* a single-line comment right after the ";" still belongs to it; a pending
\* rest that is only whitespace is no statement.
RECURSIVE SplitFrom(_, _, _, _)
SplitFrom(s, i, cur, consume_ws) ==
    IF i > Len(s)
    THEN IF cur # <<>> /\ ~AllWhitespace(cur) THEN <<cur>> ELSE <<>>
    ELSE LET isComment == s[i] = "--"
             e == IF isComment THEN CommentEnd(s, i) ELSE i
         IN IF consume_ws /\ ~isComment
            THEN <<cur>> \o SplitFrom(s, i, <<>>, FALSE)
            ELSE SplitFrom(s, e + 1, cur \o SubSeq(s, i, e),
                           consume_ws \/ s[i] = ";")

parse(s) == SplitFrom(s, 1, <<>>, FALSE)

\* Statement.get_type(): the first token that is neither whitespace nor a
\* comment, upper-cased if it is a DML or DDL keyword, else UNKNOWN
RECURSIVE TypeFrom(_, _)
TypeFrom(stmt, i) ==
    IF i > Len(stmt) THEN "UNKNOWN"
    ELSE IF stmt[i] = NL THEN TypeFrom(stmt, i + 1)
    ELSE IF stmt[i] = "--" THEN TypeFrom(stmt, CommentEnd(stmt, i) + 1)
    ELSE IF stmt[i] \in {"SELECT", "DROP"} THEN stmt[i]
    ELSE "UNKNOWN"

get_type(stmt) == TypeFrom(stmt, 1)

\* a faulty loop: returns on the first statement, whatever follows it
SafeFromFirstOnly(parsed, i) ==
    IF i > Len(parsed) THEN TRUE ELSE get_type(parsed[i]) = "SELECT"

\* is_safe_select, lines 151-156: the loop over the parsed statements
RECURSIVE SafeFrom(_, _)
SafeFrom(parsed, i) ==
    IF i > Len(parsed) THEN TRUE
    ELSE IF get_type(parsed[i]) # "SELECT" THEN FALSE
    ELSE SafeFrom(parsed, i + 1)

is_safe_select(s) == SafeFrom(parse(s), 1)

-----------------------------------------------------------------------------
(* The validator on its own: every text of up to MaxSqlLen tokens *)

SqlTexts == SeqsUpTo(SqlTokens, MaxSqlLen)

ValidatorStart ==
    /\ vq \in SqlTexts
    /\ sql = <<>>
    /\ safe = FALSE
    /\ vpc = "clean"

CleanQuery ==
    /\ vpc = "clean"
    /\ sql' = clean_query(vq)
    /\ vpc' = "validate"
    /\ UNCHANGED <<vq, safe>>

ValidateQuery ==
    /\ vpc = "validate"
    /\ safe' = is_safe_select(sql)
    /\ vpc' = "validated"
    /\ UNCHANGED <<vq, sql>>


-----------------------------------------------------------------------------
(* Records: an ordered mapping is a sequence of <<key, value>> entries with  *)
(* distinct keys; a key is a sequence of characters; a value is              *)
(* <<"scalar", s>>, <<"list", elements>> or <<"dict", entries>>.             *)

KeysOf(d) == {d[i][1] : i \in 1..Len(d)}

isinstance_dict(v) == v[1] = "dict"

\* d[k] = v on an ordered mapping: replace in place, else append
DictSet(d, k, v) ==
    IF k \in KeysOf(d)
    THEN [i \in 1..Len(d) |-> IF d[i][1] = k THEN <<k, v>> ELSE d[i]]
    ELSE Append(d, <<k, v>>)

\* d.update(other)
RECURSIVE DictUpdate(_, _)
DictUpdate(d, other) ==
    IF other = <<>> THEN d
    ELSE DictUpdate(DictSet(d, Head(other)[1], Head(other)[2]), Tail(other))

sep == <<".">>

\* a faulty flattener: no recursion, a nested mapping is stored as it is
RECURSIVE FlattenOneLevel(_, _, _, _)
FlattenOneLevel(rec, parent_key, i, acc) ==
    IF i > Len(rec) THEN acc
    ELSE FlattenOneLevel(rec, parent_key, i + 1,
                         DictSet(acc, rec[i][1], rec[i][2]))

\* flatten_record, lines 241-249: the loop over record.items() from entry i
RECURSIVE FlattenFrom(_, _, _, _)
FlattenFrom(rec, parent_key, i, acc) ==
    IF i > Len(rec) THEN acc
    ELSE LET k == rec[i][1]
             v == rec[i][2]
             new_key == IF parent_key # <<>> THEN parent_key \o sep \o k ELSE k
         IN IF isinstance_dict(v)
            THEN FlattenFrom(rec, parent_key, i + 1,
                             DictUpdate(acc, FlattenFrom(v[2], new_key, 1, <<>>)))
            ELSE FlattenFrom(rec, parent_key, i + 1, DictSet(acc, new_key, v))

flatten_record(rec, parent_key) == FlattenFrom(rec, parent_key, 1, <<>>)

-----------------------------------------------------------------------------
(* The flattener on its own: every record of up to MaxEntries entries *)

RecordKeys == {<<"a">>, <<"b">>, <<"a", ".", "b">>}

ScalarX == <<"scalar", <<"x">>>>
ScalarY == <<"scalar", <<"y">>>>
\* a list that holds a scalar and a mapping
ListXB == <<"list", <<ScalarX, <<"dict", << <<<<"b">>, ScalarY>> >> >> >> >>
Leaves == {ScalarX, ScalarY, ListXB}

RECURSIVE RecordsOfSize(_)
RECURSIVE ValuesOfSize(_)
\* the values that hold n entries, the value's own entry included
ValuesOfSize(n) ==
    IF n = 1 THEN Leaves \cup {<<"dict", <<>>>>}
    ELSE {<<"dict", r>> : r \in RecordsOfSize(n - 1)}

\* the records that hold n entries, nested ones included
RecordsOfSize(n) ==
    IF n = 0 THEN {<<>>}
    ELSE UNION {UNION {{<<<<k, v>>>> \o rest :
                           k \in RecordKeys \ KeysOf(rest), v \in ValuesOfSize(i)} :
                       rest \in RecordsOfSize(n - i)} :
                i \in 1..n}

Records == UNION {RecordsOfSize(n) : n \in 0..MaxEntries}

FlattenStart ==
    /\ record \in Records
    /\ items = <<>>
    /\ fpc = "call"

FlattenRecord ==
    /\ fpc = "call"
    /\ items' = flatten_record(record, <<>>)
    /\ fpc' = "returned"
    /\ UNCHANGED record


-----------------------------------------------------------------------------
(* The user's question as characters *)

UpperCase == <<"A", "B", "C", "D", "E", "F", "G", "H", "I", "J", "K", "L", "M",
               "N", "O", "P", "Q", "R", "S", "T", "U", "V", "W", "X", "Y", "Z">>
LowerCase == <<"a", "b", "c", "d", "e", "f", "g", "h", "i", "j", "k", "l", "m",
               "n", "o", "p", "q", "r", "s", "t", "u", "v", "w", "x", "y", "z">>

\* the lower-case form of each upper-case letter
LowerOf ==
    [c \in {UpperCase[j] : j \in 1..Len(UpperCase)} |->
        LowerCase[CHOOSE j \in 1..Len(UpperCase) : UpperCase[j] = c]]

\* str.lower()
lower(s) ==
    [i \in 1..Len(s) |-> IF s[i] \in DOMAIN LowerOf THEN LowerOf[s[i]] ELSE s[i]]

\* kw in s
Contains(s, kw) ==
    \E i \in 1..(Len(s) - Len(kw) + 1) : SubSeq(s, i, i + Len(kw) - 1) = kw

\* generate_sql line 159
forbidden_keywords ==
    << <<"a", "d", "d">>,
       <<"i", "n", "s", "e", "r", "t">>,
       <<"u", "p", "d", "a", "t", "e">>,
       <<"d", "e", "l", "e", "t", "e">>,
       <<"d", "r", "o", "p">>,
       <<"a", "l", "t", "e", "r">>,
       <<"t", "r", "u", "n", "c", "a", "t", "e">> >>

\* a faulty scan: the question is not lower-cased
is_forbidden_case_sensitive(text) ==
    \E n \in 1..Len(forbidden_keywords) : Contains(text, forbidden_keywords[n])

\* generate_sql line 160
is_forbidden(text) ==
    LET lowered == lower(text)
    IN \E n \in 1..Len(forbidden_keywords) : Contains(lowered, forbidden_keywords[n])

\* generate_sql lines 193-196: ;\s*--  ;\s*/\*  EXEC\s+  DROP\s+TABLE
dangerous_patterns(text) ==
    \E i \in 1..Len(text) :
        \/ text[i] = ";" /\ SkipWs(text, i + 1) <= Len(text)
                         /\ text[SkipWs(text, i + 1)] \in {"--", "/*"}
        \/ text[i] = "EXEC" /\ i < Len(text)
        \/ text[i] = "DROP" /\ SkipWs(text, i + 1) <= Len(text)
                            /\ text[SkipWs(text, i + 1)] = "TABLE"

-----------------------------------------------------------------------------
(* Inputs of the service *)

Envs ==
    [OPENAI_API_KEY : BOOLEAN, GEMINI_API_KEY : BOOLEAN, DATABASE_URL : BOOLEAN,
     MYSQLDB_URL : BOOLEAN,
     DATABASE_TYPE : {"postgresql", "mysql", "sqlite"},
     MODEL_PROVIDER : {"openai", "gemini", "claude"}]

UserChunks ==
    {<<"a", "d">>, <<"d">>, <<"D", "R", "O", "P">>, <<"s", "h", "o", "w", " ">>}

\* the questions: one to MaxUserChunks chunks, joined
UserTexts == {Concat(cs) : cs \in SeqsUpTo(UserChunks, MaxUserChunks)} \ {<<>>}

SqlBodies ==
    {<<>>, <<"SELECT">>, <<"SELECT", ";">>, <<"SELECT", ";", "SELECT">>,
     <<"SELECT", ";", "DROP">>, <<"DROP">>, <<"DROP", "TABLE">>,
     <<"EXEC", "SELECT">>, <<"SELECT", ";", "--">>, <<"SELECT", ";", NL, "/*">>}
Openers == {<<>>, <<FenceSql, NL>>, <<FenceSql>>, <<Fence, NL>>}
Closers == {<<>>, <<NL, Fence>>, <<NL>>}

\* what an LLM backend may answer
LlmTexts == {o \o b \o c : o \in Openers, b \in SqlBodies, c \in Closers}

RowA == << <<<<"a">>, ScalarX>> >>
RowNested == << <<<<"a">>, <<"dict", << <<<<"b">>, ScalarY>> >> >> >>,
                <<<<"b">>, ListXB>> >>
DbRows == {RowA, RowNested}

\* what the database may return for a query
ResultSets == SeqsUpTo(DbRows, MaxRows)

NoReply == [sql_query |-> <<>>, results |-> <<>>, csv_base64 |-> <<>>,
            csv_filename |-> "", summary |-> <<>>]

-----------------------------------------------------------------------------
(* Startup: module import, lines 30-113 *)

\* lines 38-39 and get_engine_and_schema_query, lines 45-73
config_ok(e) ==
    /\ e.OPENAI_API_KEY /\ e.GEMINI_API_KEY /\ e.DATABASE_URL
    /\ \/ e.DATABASE_TYPE = "postgresql"
       \/ e.DATABASE_TYPE = "mysql" /\ e.MYSQLDB_URL

RequestIdle ==
    /\ user_query = <<>>
    /\ response = <<>>
    /\ sql_query = <<>>
    /\ query = <<>>
    /\ results = <<>>
    /\ flat_results = <<>>
    /\ summary = <<>>
    /\ status = 0
    /\ reply = NoReply
    /\ llm_calls = 0
    /\ db_log = <<>>
    /\ outcome = ""
    /\ validated = <<>>
    /\ summary_error = FALSE

ValidatorIdle == vq = <<>> /\ sql = <<>> /\ safe = FALSE /\ vpc = "off"
FlattenIdle == record = <<>> /\ items = <<>> /\ fpc = "off"

\* the environment with nothing set: the defaults of lines 33 and 35
DefaultEnv ==
    [OPENAI_API_KEY |-> FALSE, GEMINI_API_KEY |-> FALSE, DATABASE_URL |-> FALSE,
     MYSQLDB_URL |-> FALSE, DATABASE_TYPE |-> "postgresql",
     MODEL_PROVIDER |-> "openai"]

ServiceOff == env = DefaultEnv /\ pc = "import" /\ RequestIdle

Init ==
    /\ env \in Envs
    /\ pc = "import"
    /\ RequestIdle
    /\ ValidatorIdle
    /\ FlattenIdle

\* the module body: configuration check, engine selection, first get_schema()
Startup ==
    /\ pc = "import"
    /\ \/ /\ ~config_ok(env)
          /\ pc' = "startup_failed"
       \/ /\ config_ok(env)
          /\ \E db_up \in BOOLEAN : pc' = IF db_up THEN "idle" ELSE "startup_failed"
    /\ UNCHANGED <<env, user_query, response, sql_query, query, results,
                   flat_results, summary, status, reply, llm_calls, db_log,
                   outcome, validated, summary_error>>

-----------------------------------------------------------------------------
(* POST /generate-query: generate_and_execute, lines 230-286 *)

\* a request arrives (user_query has 1 to 1000 characters, line 114)
Request ==
    /\ pc = "idle"
    /\ \E text \in UserTexts : user_query' = text
    /\ pc' = "get_schema"
    /\ UNCHANGED <<env, response, sql_query, query, results, flat_results,
                   summary, status, reply, llm_calls, db_log, outcome,
                   validated, summary_error>>

\* the handler has returned or raised: the response is sent, the request's
\* locals are gone and the service waits for the next request
EndRequest ==
    /\ pc = "done"
    /\ pc' = "idle"
    /\ user_query' = <<>>
    /\ response' = <<>>
    /\ sql_query' = <<>>
    /\ query' = <<>>
    /\ results' = <<>>
    /\ flat_results' = <<>>
    /\ summary' = <<>>
    /\ status' = 0
    /\ reply' = NoReply
    /\ llm_calls' = 0
    /\ db_log' = <<>>
    /\ outcome' = ""
    /\ validated' = <<>>
    /\ summary_error' = FALSE
    /\ UNCHANGED env

\* the request ends with an error status
Fail(code, why) ==
    /\ status' = code
    /\ outcome' = why
    /\ pc' = "done"

\* line 233 and get_schema, lines 90-107
GetSchema ==
    /\ pc = "get_schema"
    /\ db_log' = Append(db_log, [op |-> "schema_query", text |-> <<>>])
    /\ \/ /\ pc' = "scan"
          /\ UNCHANGED <<status, outcome>>
       \/ Fail(500, "schema_error")
    /\ UNCHANGED <<env, user_query, response, sql_query, query, results,
                   flat_results, summary, reply, llm_calls, validated,
                   summary_error>>

\* generate_sql, lines 159-162: the forbidden-keyword scan
GenerateSqlScan ==
    /\ pc = "scan"
    /\ IF is_forbidden(user_query)
       THEN Fail(400, "keyword")
       ELSE pc' = "call_llm" /\ UNCHANGED <<status, outcome>>
    /\ UNCHANGED <<env, user_query, response, sql_query, query, results,
                   flat_results, summary, reply, llm_calls, db_log, validated,
                   summary_error>>

\* openai_api_call, lines 124-135: the answer stripped, or HTTPException(500)
openai_api_call == {[ok |-> TRUE, text |-> strip(t)] : t \in LlmTexts}
                       \cup {[ok |-> FALSE, text |-> <<>>]}

\* gemini_api_call, lines 137-147: the answer as is, or HTTPException(500)
gemini_api_call == {[ok |-> TRUE, text |-> t] : t \in LlmTexts}
                       \cup {[ok |-> FALSE, text |-> <<>>]}

\* generate_sql, lines 179-185: the backend call
GenerateSqlCall ==
    /\ pc = "call_llm"
    /\ \/ /\ env.MODEL_PROVIDER = "openai"
          /\ llm_calls' = llm_calls + 1
          /\ \E r \in openai_api_call :
                IF r.ok
                THEN response' = r.text /\ pc' = "check_sql"
                                        /\ UNCHANGED <<status, outcome>>
                ELSE Fail(500, "llm_error") /\ UNCHANGED response
       \/ /\ env.MODEL_PROVIDER = "gemini"
          /\ llm_calls' = llm_calls + 1
          /\ \E r \in gemini_api_call :
                IF r.ok
                THEN response' = r.text /\ pc' = "check_sql"
                                        /\ UNCHANGED <<status, outcome>>
                ELSE Fail(500, "llm_error") /\ UNCHANGED response
       \/ /\ env.MODEL_PROVIDER \notin {"openai", "gemini"}
          /\ Fail(500, "provider")
          /\ UNCHANGED <<response, llm_calls>>
    /\ UNCHANGED <<env, user_query, sql_query, query, results, flat_results,
                   summary, reply, db_log, validated, summary_error>>

\* generate_sql, lines 189-201: the checks on the answer; every error raised
\* in the try block leaves as HTTPException(500)
GenerateSqlCheck ==
    /\ pc = "check_sql"
    /\ IF strip(response) = <<>>
       THEN Fail(500, "empty") /\ UNCHANGED sql_query
       ELSE IF dangerous_patterns(response)
       THEN Fail(500, "pattern") /\ UNCHANGED sql_query
       ELSE /\ sql_query' = strip(response)
            /\ pc' = "clean"
            /\ UNCHANGED <<status, outcome>>
    /\ UNCHANGED <<env, user_query, response, query, results, flat_results,
                   summary, reply, llm_calls, db_log, validated, summary_error>>

\* a faulty execute_sql: the validator's answer is ignored
ExecuteSqlUnchecked ==
    /\ pc = "clean"
    /\ query' = clean_query(sql_query)
    /\ validated' = Append(validated,
                           [text |-> query', ok |-> is_safe_select(query')])
    /\ pc' = "run"
    /\ UNCHANGED <<env, user_query, response, sql_query, results, flat_results,
                   summary, reply, llm_calls, db_log, summary_error, status,
                   outcome>>

\* execute_sql, lines 209-213: clean, validate; the ValueError is not an
\* SQLAlchemyError, so it leaves the handler uncaught: status 500
ExecuteSqlValidate ==
    /\ pc = "clean"
    /\ query' = clean_query(sql_query)
    /\ validated' = Append(validated,
                           [text |-> query', ok |-> is_safe_select(query')])
    /\ IF ~is_safe_select(query')
       THEN Fail(500, "validator")
       ELSE pc' = "run" /\ UNCHANGED <<status, outcome>>
    /\ UNCHANGED <<env, user_query, response, sql_query, results, flat_results,
                   summary, reply, llm_calls, db_log, summary_error>>

\* execute_sql, lines 215-222: connect, execute, fetch; SQLAlchemyError -> 400
ExecuteSqlRun ==
    /\ pc = "run"
    /\ db_log' = Append(db_log, [op |-> "execute", text |-> query])
    /\ \/ \E rows \in ResultSets :
             /\ results' = rows
             /\ pc' = "flatten"
             /\ UNCHANGED <<status, outcome>>
       \/ Fail(400, "db_error") /\ UNCHANGED results
    /\ UNCHANGED <<env, user_query, response, sql_query, query, flat_results,
                   summary, reply, llm_calls, validated, summary_error>>

\* line 250
FlattenResults ==
    /\ pc = "flatten"
    /\ flat_results' = [i \in 1..Len(results) |-> flatten_record(results[i], <<>>)]
    /\ pc' = "summarize"
    /\ UNCHANGED <<env, user_query, response, sql_query, query, results,
                   summary, status, reply, llm_calls, db_log, outcome,
                   validated, summary_error>>

\* line 265: f"Returned {len(flat_results)} rows."
fallback_summary(rows) == <<"Returned", Len(rows), "rows.">>

LlmSummary == <<"llm answer">>

\* a faulty summary step: the backend's HTTPException is not caught
SummarizeRaising ==
    /\ pc = "summarize"
    /\ llm_calls' = llm_calls + 1
    /\ \E ok \in BOOLEAN :
          /\ summary_error' = ~ok
          /\ IF ok
             THEN /\ summary' = LlmSummary
                  /\ pc' = "respond"
                  /\ UNCHANGED <<status, outcome>>
             ELSE Fail(500, "llm_error") /\ UNCHANGED summary
    /\ UNCHANGED <<env, user_query, response, sql_query, query, results,
                   flat_results, reply, db_log, validated>>

\* lines 253-265: json.dumps, then the backend call; any exception gives the
\* fallback summary
Summarize ==
    /\ pc = "summarize"
    /\ \/ /\ summary' = fallback_summary(flat_results)      \* json.dumps raised
          /\ summary_error' = TRUE
          /\ UNCHANGED llm_calls
       \/ /\ llm_calls' = llm_calls + 1
          /\ \E ok \in BOOLEAN :
                /\ summary' = IF ok THEN LlmSummary
                              ELSE fallback_summary(flat_results)
                /\ summary_error' = ~ok
    /\ pc' = "respond"
    /\ UNCHANGED <<env, user_query, response, sql_query, query, results,
                   flat_results, status, reply, db_log, outcome, validated>>

\* lines 268-278: the CSV rendering of the flattened rows, base64-encoded
csv_base64(rows) == IF rows # <<>> THEN <<"b64", rows>> ELSE <<>>
csv_filename(rows) == IF rows # <<>> THEN "result_<hex>.csv" ELSE ""

\* lines 268-286
Respond ==
    /\ pc = "respond"
    /\ reply' = [sql_query |-> sql_query,
                 results |-> flat_results,
                 csv_base64 |-> csv_base64(flat_results),
                 csv_filename |-> csv_filename(flat_results),
                 summary |-> summary]
    /\ status' = 200
    /\ outcome' = "ok"
    /\ pc' = "done"
    /\ UNCHANGED <<env, user_query, response, sql_query, query, results,
                   flat_results, summary, llm_calls, db_log, validated,
                   summary_error>>

Next ==
    \/ Startup /\ UNCHANGED <<validatorVars, flattenVars>>
    \/ Request /\ UNCHANGED <<validatorVars, flattenVars>>
    \/ GetSchema /\ UNCHANGED <<validatorVars, flattenVars>>
    \/ GenerateSqlScan /\ UNCHANGED <<validatorVars, flattenVars>>
    \/ GenerateSqlCall /\ UNCHANGED <<validatorVars, flattenVars>>
    \/ GenerateSqlCheck /\ UNCHANGED <<validatorVars, flattenVars>>
    \/ ExecuteSqlValidate /\ UNCHANGED <<validatorVars, flattenVars>>
    \/ ExecuteSqlRun /\ UNCHANGED <<validatorVars, flattenVars>>
    \/ FlattenResults /\ UNCHANGED <<validatorVars, flattenVars>>
    \/ Summarize /\ UNCHANGED <<validatorVars, flattenVars>>
    \/ Respond /\ UNCHANGED <<validatorVars, flattenVars>>
    \/ EndRequest /\ UNCHANGED <<validatorVars, flattenVars>>

Spec == Init /\ [][Next]_vars

NextValidator ==
    \/ CleanQuery /\ UNCHANGED <<handlerVars, flattenVars>>
    \/ ValidateQuery /\ UNCHANGED <<handlerVars, flattenVars>>

InitValidator == ServiceOff /\ FlattenIdle /\ ValidatorStart

\* the validator alone: the service stays at import
SpecValidator == InitValidator /\ [][NextValidator]_vars

NextFlatten ==
    \/ FlattenRecord /\ UNCHANGED <<handlerVars, validatorVars>>

InitFlatten == ServiceOff /\ ValidatorIdle /\ FlattenStart

\* the flattener alone
SpecFlatten == InitFlatten /\ [][NextFlatten]_vars

-----------------------------------------------------------------------------
(* Properties *)

\* the texts sent to the database for execution in this request
Executed == {db_log[j].text : j \in {n \in 1..Len(db_log) : db_log[n].op = "execute"}}

\* the types of the statements a text parses into
StatementTypes(text) == [i \in 1..Len(parse(text)) |-> get_type(parse(text)[i])]

\* C1: whenever is_safe_select returns true, the text parses into exactly one
\* statement and that statement is a SELECT.
C1_AcceptedIsSingleSelect ==
    (vpc = "validated" /\ safe) => StatementTypes(sql) = <<"SELECT">>

\* C2: when the cleaned text parses into no statement, is_safe_select returns
\* false and execute_sql sends nothing to the database.
C2_NoStatementRejected ==
    \A i \in 1..Len(validated) :
        parse(validated[i].text) = <<>> => ~validated[i].ok /\ Executed = {}

\* C3: whenever some statement of the parsed text has a type other than
\* SELECT, is_safe_select returns false.
C3_NonSelectRejected ==
    (vpc = "validated"
        /\ \E i \in 1..Len(StatementTypes(sql)) : StatementTypes(sql)[i] # "SELECT")
    => safe = FALSE

\* C3 witness: a SELECT followed by a statement of another type was rejected
C3_Witness ==
    /\ vpc = "validated"
    /\ Len(StatementTypes(sql)) = 2
    /\ StatementTypes(sql)[1] = "SELECT"
    /\ StatementTypes(sql)[2] = "DROP"
    /\ safe = FALSE

\* C4: a text is sent to the database for execution only after is_safe_select
\* returned true for exactly that text, the fence-stripped answer; and when
\* the validator rejects, the request ends there: execute_sql opens no
\* connection and executes nothing, so the schema query of get_schema stays
\* the request's only database operation.
C4_ExecuteOnlyValidated ==
    /\ \A q \in Executed :
          /\ q = clean_query(sql_query)
          /\ validated = <<[text |-> q, ok |-> TRUE]>>
    /\ (\E i \in 1..Len(validated) : ~validated[i].ok) =>
          /\ pc = "done"
          /\ Executed = {}
          /\ db_log = <<[op |-> "schema_query", text |-> <<>>]>>

\* C4 witness: a fenced answer was validated and executed without its fences
C4_Witness ==
    /\ Executed = {<<"SELECT">>}
    /\ sql_query = <<FenceSql, NL, "SELECT", NL, Fence>>

\* the keywords of the claim, as characters
ClaimKeywords ==
    {<<"a", "d", "d">>, <<"i", "n", "s", "e", "r", "t">>,
     <<"u", "p", "d", "a", "t", "e">>, <<"d", "e", "l", "e", "t", "e">>,
     <<"d", "r", "o", "p">>, <<"a", "l", "t", "e", "r">>,
     <<"t", "r", "u", "n", "c", "a", "t", "e">>}

MentionsForbidden(text) ==
    LET lowered == lower(text) IN \E kw \in ClaimKeywords : Contains(lowered, kw)

\* C5: a question whose lower-cased text contains a forbidden keyword is
\* rejected by generate_sql with status 400 before any LLM backend call; no
\* backend call is made and no SQL is executed for that request.
C5_ForbiddenRejectedEarly ==
    MentionsForbidden(user_query) =>
        /\ llm_calls = 0
        /\ Executed = {}
        /\ pc \in {"get_schema", "scan", "done"}
        /\ (pc = "done" /\ outcome # "schema_error") =>
               (outcome = "keyword" /\ status = 400)

\* C5 witness: an upper-case keyword was rejected by the scan
C5_Witness ==
    /\ pc = "done"
    /\ outcome = "keyword"
    /\ status = 400
    /\ user_query = <<"D", "R", "O", "P">>

\* C6: a request rejected as non-read-only, by the keyword scan, by the
\* dangerous-pattern scan or by the statement validator, ends with status
\* 400, and so does a request whose database execution fails.
C6_RejectionsAre400 ==
    (pc = "done" /\ outcome \in {"keyword", "pattern", "validator", "db_error"})
    => status = 400

\* C7: once execution has returned rows, a failure of the summary step does
\* not fail the request: the summary is "Returned N rows." with N the number
\* of flattened records, and the response carries the same sql_query,
\* results and CSV fields as without the failure.
C7_SummaryFailureTolerated ==
    summary_error =>
        /\ pc \in {"respond", "done"}
        /\ summary = <<"Returned", Len(results), "rows.">>
        /\ Len(flat_results) = Len(results)
        /\ pc = "done" =>
              /\ status = 200
              /\ reply.summary = <<"Returned", Len(results), "rows.">>
              /\ reply.sql_query = sql_query
              /\ reply.results = flat_results
              /\ reply.csv_base64 = csv_base64(flat_results)
              /\ reply.csv_filename = csv_filename(flat_results)

\* C7 witness: a request with a row answered 200 after its summary step failed
C7_Witness ==
    /\ pc = "done"
    /\ summary_error
    /\ status = 200
    /\ Len(results) = 1
    /\ reply.summary = <<"Returned", 1, "rows.">>

\* the entries of a record that are not mappings, at any depth, each under
\* its dotted path
RECURSIVE LeafEntries(_, _)
LeafEntries(rec, path) ==
    UNION {LET k == rec[i][1]
               v == rec[i][2]
               dotted == IF path = <<>> THEN k ELSE path \o <<".">> \o k
           IN IF v[1] = "dict" THEN LeafEntries(v[2], dotted) ELSE {<<dotted, v>>} :
           i \in 1..Len(rec)}

\* C8: flatten_record returns a record none of whose values is a mapping; its
\* keys are the dotted paths parentKey.childKey of the entries that are not
\* mappings, and each value, lists included, is the unchanged value of such
\* an entry.
C8_FlatHasNoMapping ==
    fpc = "returned" =>
        /\ \A i \in 1..Len(items) : items[i][2][1] # "dict"
        /\ \A i, j \in 1..Len(items) : items[i][1] = items[j][1] => i = j
        /\ KeysOf(items) = {e[1] : e \in LeafEntries(record, <<>>)}
        /\ \A i \in 1..Len(items) : items[i] \in LeafEntries(record, <<>>)

\* C8 witness: a record with a nested mapping and a list was flattened
C8_Witness ==
    /\ fpc = "returned"
    /\ record = << <<<<"a">>, <<"dict", << <<<<"b">>, ScalarY>> >> >> >>,
                   <<<<"b">>, ListXB>> >>
    /\ items = << <<<<"a", ".", "b">>, ScalarY>>, <<<<"b">>, ListXB>> >>

\* C9: with an unsupported provider selector, an unsupported dialect selector
\* or a missing credential the process fails at startup and serves no request.
C9_BadConfigNeverServes ==
    (\/ env.MODEL_PROVIDER \notin {"openai", "gemini"}
     \/ env.DATABASE_TYPE \notin {"postgresql", "mysql"}
     \/ ~(env.OPENAI_API_KEY /\ env.GEMINI_API_KEY /\ env.DATABASE_URL)
     \/ (env.DATABASE_TYPE = "mysql" /\ ~env.MYSQLDB_URL))
    => pc \in {"import", "startup_failed"}

\* C10: the sql_query field of a successful response is the text that was
\* passed to the validator and sent to the database.
C10_ReplyCarriesExecutedSql ==
    status = 200 =>
        /\ Executed = {reply.sql_query}
        /\ \A i \in 1..Len(validated) : validated[i].text = reply.sql_query

====
